---- MODULE Spec2Model ----
(***************************************************************************)
(* Model of elstatus: the equipment resolution pipeline of src/src/lib.rs  *)
(* and src/src/main.rs, the e-mail status counters of src/src/email.rs and *)
(* the display update with its bounded-retry upload of src/src/display.rs. *)
(*                                                                         *)
(* Strings whose characters matter (names, labels, categories) are         *)
(* sequences of one-character strings.  A JSON value is a record tagged by *)
(* its type in field t.  The text of a JSON document is the record         *)
(* [text |-> "json", of |-> value]; any other text is "raw".               *)
(***************************************************************************)
EXTENDS Integers, Sequences, FiniteSets, TLC

VARIABLES
    lib_call,           \* last call of a lib.rs function: [fn, arg, ret]
    pc,                 \* position of main.rs main()
    EQUIPMENTS,         \* the configured groups (main.rs lazy_static)
    requests,           \* groups for which the HTTP GET was issued, in order
    results,            \* the mapped iterator's items: one Result per group
    equipments,         \* main(): merged records
    errors,             \* main(): collected errors
    mail,               \* what send_result computed
    d_pc,               \* position of display::update
    d_equipments,       \* argument of display::update
    broken_equipments,  \* render_ui: the list handed to the UI
    tag,                \* tag being uploaded to
    i,                  \* upload_image: loop counter
    delay,              \* upload_image: next backoff in ms
    last_result,        \* upload_image: last_result
    attempts,           \* log of try_uploading calls: <<tag, outcome>>
    sleeps,             \* log of thread::sleep calls in ms
    upload_ret,         \* return value of upload_image, per tag
    d_ret               \* return value of display::update

vars == <<lib_call, pc, EQUIPMENTS, requests, results, equipments, errors, mail,
          d_pc, d_equipments, broken_equipments, tag, i, delay, last_result,
          attempts, sleeps, upload_ret, d_ret>>

libVars == <<lib_call>>
mainVars == <<pc, EQUIPMENTS, requests, results, equipments, errors>>
displayVars == <<d_pc, d_equipments, broken_equipments, tag, i, delay,
                 last_result, attempts, sleeps, upload_ret, d_ret>>

----------------------------------------------------------------------------
(* Bounds of the model *)

MaxFeatures == 3
MaxGroups == 3
MaxRecords == 3

----------------------------------------------------------------------------
(* Rust's Option and Result *)

None == [some |-> FALSE]
Some(x) == [some |-> TRUE, v |-> x]
Ok(x) == [ok |-> TRUE, v |-> x]
Err(e) == [ok |-> FALSE, e |-> e]

unwrap_or(o, d) == IF o.some THEN o.v ELSE d

RECURSIVE Flatten(_)
Flatten(ss) == IF ss = <<>> THEN <<>> ELSE Head(ss) \o Flatten(Tail(ss))

Map(s, Op(_)) == [k \in DOMAIN s |-> Op(s[k])]

----------------------------------------------------------------------------
(* serde_json::Value *)

JNull == [t |-> "null"]
JBool(b) == [t |-> "bool", b |-> b]
JStr(s) == [t |-> "str", s |-> s]
JArr(a) == [t |-> "arr", a |-> a]
JObj(o) == [t |-> "obj", o |-> o]

get(json, key) ==
    IF json.t = "obj" /\ key \in DOMAIN json.o THEN Some(json.o[key]) ELSE None

as_bool(json) == IF json.t = "bool" THEN Some(json.b) ELSE None
as_str(json) == IF json.t = "str" THEN Some(json.s) ELSE None
as_array(json) == IF json.t = "arr" THEN Some(json.a) ELSE None

to_string(json) == [text |-> "json", of |-> json]
from_str(text) ==
    IF text.text = "json" THEN Ok(text.of) ELSE Err([kind |-> "serde_json::Error"])

----------------------------------------------------------------------------
(* Strings *)

Upper == <<"A","B","C","D","E","F","G","H","I","J","K","L","M",
           "N","O","P","Q","R","S","T","U","V","W","X","Y","Z">>
Lower == <<"a","b","c","d","e","f","g","h","i","j","k","l","m",
           "n","o","p","q","r","s","t","u","v","w","x","y","z">>

to_lowercase(s) ==
    [k \in DOMAIN s |->
        IF \E u \in DOMAIN Upper : Upper[u] = s[k]
        THEN Lower[CHOOSE u \in DOMAIN Upper : Upper[u] = s[k]]
        ELSE s[k]]

elevator == <<"e","l","e","v","a","t","o","r">>
Elevator == <<"E","l","e","v","a","t","o","r">>
escalator == <<"e","s","c","a","l","a","t","o","r">>
CannotFindDescription ==
    <<"C","a","n","n","o","t"," ","f","i","n","d"," ",
      "d","e","s","c","r","i","p","t","i","o","n","!">>

----------------------------------------------------------------------------
(* lib.rs: errors *)

MissingValue(value, json) == [kind |-> "MissingValue", value |-> value, json |-> json]
InvalidType(expected_type, json) ==
    [kind |-> "InvalidType", expected_type |-> expected_type, json |-> json]
HTTPRequestError(status, response_text) ==
    [kind |-> "HTTPRequestError", status |-> status, response_text |-> response_text]
CannotFindEquipment(query_text) ==
    [kind |-> "CannotFindEquipment", query_text |-> query_text]

EquipmentAccessError_to_string(e) ==
    CASE e.kind = "MissingValue" ->
            <<"Missing value: {} in JSON: {}", e.value, e.json>>
      [] e.kind = "InvalidType" ->
            <<"Expected JSON: {} to be of type: {}", e.json, e.expected_type>>
      [] e.kind = "HTTPRequestError" ->
            <<"HTTP request failed, error code: {}\n{}", e.status, e.response_text>>
      [] e.kind = "CannotFindEquipment" ->
            <<"Could not find elevator: {}", e.query_text>>

----------------------------------------------------------------------------
(* lib.rs: Feature Parser and Feature List Parser *)

Equipment(name, category, working, place) ==
    [name |-> name, category |-> category, working |-> working, place |-> place]

parse_equipment(json) ==
    IF get(json, "properties").some
    THEN LET properties == get(json, "properties").v
             working == as_bool(unwrap_or(get(properties, "isWorking"), JNull))
             description == get(properties, "description")
             name == IF description.some
                     THEN unwrap_or(
                            as_str(unwrap_or(get(description.v, "de"), description.v)),
                            CannotFindDescription)
                     ELSE CannotFindDescription
             category == IF get(properties, "category").some
                         THEN unwrap_or(as_str(get(properties, "category").v), elevator)
                         ELSE elevator
             place == IF get(properties, "placeInfoName").some
                      THEN as_str(get(properties, "placeInfoName").v)
                      ELSE None
         IN  Ok(Equipment(name, category, working, place))
    ELSE Err(MissingValue("description", to_string(json)))

IsOk(r) == r.ok
IsErr(r) == ~r.ok
ResultOk(r) == r.v
ResultErr(r) == r.e
\* mutant: the category is compared without lower-casing it
IsElevator_case_sensitive(equipment) == equipment.category = elevator

IsElevator(equipment) == to_lowercase(equipment.category) = elevator

\* mutant: emptiness is tested before the elevator filter is applied
parse_equipment_list_raw_empty(json) ==
    IF as_array(json).some
    THEN LET parsed == Map(as_array(json).v, parse_equipment)
             oks == Map(SelectSeq(parsed, IsOk), ResultOk)
             filtered == SelectSeq(oks, IsElevator)
             errs == Map(SelectSeq(parsed, IsErr), ResultErr)
         IN  IF oks = <<>> THEN Err(errs) ELSE Ok(filtered)
    ELSE Err(<<InvalidType("Array", to_string(json))>>)

parse_equipment_list(json) ==
    IF as_array(json).some
    THEN LET parsed == Map(as_array(json).v, parse_equipment)
             oks == Map(SelectSeq(parsed, IsOk), ResultOk)
             filtered == SelectSeq(oks, IsElevator)
             errs == Map(SelectSeq(parsed, IsErr), ResultErr)
         IN  IF filtered = <<>> THEN Err(errs) ELSE Ok(filtered)
    ELSE Err(<<InvalidType("Array", to_string(json))>>)

----------------------------------------------------------------------------
(* ngrammatic: the Similarity Index.  CorpusBuilder::new().finish() has    *)
(* arity 2 and Pad::Auto (one space on each side); search() scores every   *)
(* corpus text that shares a gram with the query by similarity_to with     *)
(* warp 2.0, keeps the scores >= threshold and sorts them best first.      *)
(* Scores are compared as fractions <<numerator, denominator>>.            *)

Pad(s) == <<" ">> \o s \o <<" ">>

Grams(s) == LET p == Pad(s) IN [k \in 1..(Len(p) - 1) |-> <<p[k], p[k + 1]>>]

\* how often the gram g occurs in the grams of a text
count_gram(g, grams) == Cardinality({k \in DOMAIN grams : grams[k] = g})

Min(a, b) == IF a <= b THEN a ELSE b

RECURSIVE SumOver(_, _, _)
SumOver(S, ga, gb) ==
    IF S = {} THEN 0
    ELSE LET g == CHOOSE x \in S : TRUE
         IN  Min(count_gram(g, ga), count_gram(g, gb)) + SumOver(S \ {g}, ga, gb)

count_shared(a, b) ==
    LET ga == Grams(a)
        gb == Grams(b)
    IN  SumOver({ga[k] : k \in DOMAIN ga}, ga, gb)

similarity_to(a, b) ==
    LET samegrams == count_shared(a, b)
        allgrams == Len(Grams(a)) + Len(Grams(b)) - samegrams
        diffgrams == allgrams - samegrams
    IN  <<allgrams * allgrams - diffgrams * diffgrams, allgrams * allgrams>>

\* the threshold 0.4 as the fraction 4/10
ThresholdNum == 4
ThresholdDen == 10

ScoreGeq(p, q) == p[1] * q[2] >= q[1] * p[2]

matches(query, text) ==
    /\ count_shared(query, text) > 0
    /\ ScoreGeq(similarity_to(query, text), <<ThresholdNum, ThresholdDen>>)

\* mutant: any text above the threshold may come first
search_first_any(corpus, query) == {text \in corpus : matches(query, text)}

\* The texts that may come first in corpus.search(query, 0.4): the ones
\* with the best score; among equal scores the order is that of a HashSet.
search_first(corpus, query) ==
    {text \in corpus :
        /\ matches(query, text)
        /\ \A other \in corpus :
              matches(query, other) =>
                 ScoreGeq(similarity_to(query, text), similarity_to(query, other))}

corpus_of(source_equipments) ==
    {source_equipments[k].name : k \in DOMAIN source_equipments}

\* mutant: the last record of that name is taken
find_by_name_last(source_equipments, text) ==
    LET hits == {k \in DOMAIN source_equipments : source_equipments[k].name = text}
    IN  IF hits = {} THEN None
        ELSE Some(source_equipments[CHOOSE k \in hits : \A h \in hits : k >= h])

\* source_equipments.iter().find(|equipment| equipment.name == text)
find_by_name(source_equipments, text) ==
    LET hits == {k \in DOMAIN source_equipments : source_equipments[k].name = text}
    IN  IF hits = {} THEN None
        ELSE Some(source_equipments[CHOOSE k \in hits : \A h \in hits : k <= h])

\* query_result.first().and_then(|result_name| find(...)): every value the
\* expression can take for one search label
lookup(source_equipments, query) ==
    IF search_first(corpus_of(source_equipments), query) = {}
    THEN {None}
    ELSE {find_by_name(source_equipments, text) :
            text \in search_first(corpus_of(source_equipments), query)}

----------------------------------------------------------------------------
(* lib.rs: Location Resolver.  env_token is the value of WHEELMAP_TOKEN    *)
(* (an Option), response the outcome of the HTTP GET: an error of reqwest  *)
(* or [status, text], text being the Result of request.text().  The value  *)
(* is the set of results the call can have.                                *)

\* mutant: only the statuses below 200 count as failures
is_success_lenient(status) == status >= 200

is_success(status) == status >= 200 /\ status <= 299

NoTextReceived == [text |-> "No text received!"]
\* request.text().unwrap_or("No text received!".to_owned())
text_or_default(text) == IF text.ok THEN text.v ELSE NoTextReceived

RECURSIVE search_loop(_, _, _)
search_loop(source_equipments, searches, found) ==
    IF searches = <<>> THEN {Ok(found)}
    ELSE UNION {
           IF o.some
           THEN search_loop(source_equipments, Tail(searches), Append(found, o.v))
           ELSE {Err(CannotFindEquipment(Head(searches)))}
           : o \in lookup(source_equipments, Head(searches))}

sourcing_error(errs) ==
    [kind |-> "String",
     text |-> <<"Errors encountered when sourcing equipments:\n{}">>
              \o Map(errs, EquipmentAccessError_to_string)]

get_equipments(list, env_token, response) ==
    IF ~env_token.some THEN {Err([kind |-> "std::env::VarError"])}
    ELSE IF ~response.ok THEN {Err(response.e)}
    ELSE IF ~is_success(response.v.status)
    THEN {Err(HTTPRequestError(response.v.status, text_or_default(response.v.text)))}
    ELSE IF ~response.v.text.ok THEN {Err(response.v.text.e)}
    ELSE IF ~from_str(response.v.text.v).ok THEN {Err(from_str(response.v.text.v).e)}
    ELSE LET json == from_str(response.v.text.v).v
         IN  IF get(json, "features").some
             THEN LET parsed == parse_equipment_list(get(json, "features").v)
                  IN  IF parsed.ok
                      THEN search_loop(parsed.v, list.equipment_searches, <<>>)
                      ELSE {Err(sourcing_error(parsed.e))}
             ELSE {Err(MissingValue("", response.v.text.v))}

----------------------------------------------------------------------------
(* Inputs: names, search labels, features and HTTP responses *)

s_ab == <<"a","b">>
s_abc == <<"a","b","c">>
s_ax == <<"a","x">>
s_xy == <<"x","y">>
s_zz == <<"z","z">>
s_P == <<"P">>

f_ab_ok ==
    JObj([properties |-> JObj([isWorking |-> JBool(TRUE),
                               description |-> JObj([de |-> JStr(s_ab)]),
                               category |-> JStr(elevator),
                               placeInfoName |-> JStr(s_P)])])
f_xy_broken ==
    JObj([properties |-> JObj([isWorking |-> JBool(FALSE),
                               description |-> JStr(s_xy),
                               category |-> JStr(Elevator)])])
f_abc_unknown ==
    JObj([properties |-> JObj([description |-> JObj([de |-> JStr(s_abc)])])])
f_ab_escalator ==
    JObj([properties |-> JObj([isWorking |-> JBool(TRUE),
                               description |-> JObj([de |-> JStr(s_ab)]),
                               category |-> JStr(escalator)])])
f_no_description ==
    JObj([properties |-> JObj([isWorking |-> JStr(s_ab),
                               description |-> JObj([en |-> JStr(s_ab)]),
                               category |-> JNull])])
f_abc_second ==
    JObj([properties |-> JObj([isWorking |-> JBool(FALSE),
                               description |-> JStr(s_abc)])])
f_no_properties == JObj([type |-> JStr(s_P)])
f_empty_description ==
    JObj([properties |-> JObj([isWorking |-> JBool(TRUE),
                               description |-> JObj([de |-> JStr(<<>>)])])])
f_empty_plain_description ==
    JObj([properties |-> JObj([description |-> JStr(<<>>)])])

Features == {f_ab_ok, f_xy_broken, f_abc_unknown, f_abc_second, f_ab_escalator,
             f_no_description, f_no_properties}

RECURSIVE SeqsUpTo(_, _)
SeqsUpTo(S, n) ==
    IF n = 0 THEN {<<>>}
    ELSE SeqsUpTo(S, n - 1)
         \cup {Append(q, x) : q \in {r \in SeqsUpTo(S, n - 1) : Len(r) = n - 1}, x \in S}

FeatureArrays == SeqsUpTo(Features, MaxFeatures)

SearchLists == {<<s_ab>>, <<s_ab, s_xy>>, <<s_zz, s_ab>>, <<s_ax, s_xy>>, <<s_ab, s_abc>>}

EquipmentList(searches) == [equipment_searches |-> searches]

RawText == [text |-> "raw"]
Body(features) == to_string(JObj([type |-> JStr(s_P), features |-> features]))
Response(status, text) == Ok([status |-> status, text |-> Ok(text)])
ResponseWithoutText(status) ==
    Ok([status |-> status, text |-> Err([kind |-> "reqwest::Error"])])

LibResponses ==
    {Err([kind |-> "reqwest::Error"]),
     Response(500, RawText),
     Response(404, Body(JArr(<<f_ab_ok>>))),
     ResponseWithoutText(500),
     ResponseWithoutText(200),
     Response(200, RawText),
     Response(200, to_string(JObj([type |-> JStr(s_P)]))),
     Response(200, Body(JStr(s_ab)))}
    \cup {Response(200, Body(JArr(a))) : a \in FeatureArrays}

----------------------------------------------------------------------------
(* Calls of the functions of lib.rs *)

LibInit == lib_call = [fn |-> "none"]

ParseEquipment ==
    /\ lib_call.fn = "none"
    /\ \E json \in Features \cup {f_empty_description, f_empty_plain_description,
                                 JStr(s_ab), JArr(<<f_ab_ok>>)} :
          lib_call' = [fn |-> "parse_equipment", arg |-> json,
                       ret |-> parse_equipment(json)]
    /\ UNCHANGED <<mainVars, mail, displayVars>>

ParseEquipmentList ==
    /\ lib_call.fn = "none"
    /\ \E json \in {JArr(a) : a \in FeatureArrays} \cup {JStr(s_ab), f_ab_ok} :
          lib_call' = [fn |-> "parse_equipment_list", arg |-> json,
                       ret |-> parse_equipment_list(json)]
    /\ UNCHANGED <<mainVars, mail, displayVars>>

GetEquipments ==
    /\ lib_call.fn = "none"
    /\ \E searches \in SearchLists, env_token \in {None, Some("token")},
          response \in LibResponses :
          \* without the token no request is made: one response stands for all
          /\ env_token.some \/ response = Response(200, Body(JArr(<<f_ab_ok>>)))
          /\ \E ret \in get_equipments(EquipmentList(searches), env_token, response) :
             lib_call' = [fn |-> "get_equipments",
                          arg |-> [list |-> EquipmentList(searches),
                                   env_token |-> env_token, response |-> response],
                          ret |-> ret]
    /\ UNCHANGED <<mainVars, mail, displayVars>>

----------------------------------------------------------------------------
(* main.rs: its own Equipment (no category), parsers and Location Resolver *)

main_Equipment(name, working, place) ==
    [name |-> name, working |-> working, place |-> place]

main_parse_equipment(json) ==
    IF get(json, "properties").some
    THEN LET properties == get(json, "properties").v
             working == as_bool(unwrap_or(get(properties, "isWorking"), JNull))
             description == get(properties, "description")
             name == IF description.some
                     THEN unwrap_or(
                            as_str(unwrap_or(get(description.v, "de"), description.v)),
                            CannotFindDescription)
                     ELSE CannotFindDescription
             place == IF get(properties, "placeInfoName").some
                      THEN as_str(get(properties, "placeInfoName").v)
                      ELSE None
         IN  Ok(main_Equipment(name, working, place))
    ELSE Err(MissingValue("description", to_string(json)))

main_parse_equipment_list(json) ==
    IF as_array(json).some
    THEN LET parsed == Map(as_array(json).v, main_parse_equipment)
             oks == Map(SelectSeq(parsed, IsOk), ResultOk)
             errs == Map(SelectSeq(parsed, IsErr), ResultErr)
         IN  IF oks = <<>> THEN Err(errs) ELSE Ok(oks)
    ELSE Err(<<InvalidType("Array", to_string(json))>>)

\* main.rs:179-190: a label without a match pushes nothing and the loop goes on
RECURSIVE main_search_loop(_, _, _)
main_search_loop(source_equipments, searches, found) ==
    IF searches = <<>> THEN {Ok(found)}
    ELSE UNION {
           IF o.some
           THEN main_search_loop(source_equipments, Tail(searches), Append(found, o.v))
           ELSE main_search_loop(source_equipments, Tail(searches), found)
           : o \in lookup(source_equipments, Head(searches))}

main_get_equipments(list, response) ==
    IF ~response.ok THEN {Err(response.e)}
    ELSE IF ~is_success(response.v.status)
    THEN {Err(HTTPRequestError(response.v.status, text_or_default(response.v.text)))}
    ELSE IF ~response.v.text.ok THEN {Err(response.v.text.e)}
    ELSE IF ~from_str(response.v.text.v).ok THEN {Err(from_str(response.v.text.v).e)}
    ELSE LET json == from_str(response.v.text.v).v
         IN  IF get(json, "features").some
             THEN LET parsed == main_parse_equipment_list(get(json, "features").v)
                  IN  IF parsed.ok
                      THEN main_search_loop(parsed.v, list.equipment_searches, <<>>)
                      ELSE {Err(sourcing_error(parsed.e))}
             ELSE {Err(MissingValue("", response.v.text.v))}

----------------------------------------------------------------------------
(* email.rs / main.rs: send_result's counters and subject *)

IsWorking(eq) == unwrap_or(eq.working, FALSE)
\* mutant: a record without status counts as failed
IsFailed_unless_working(eq) == ~unwrap_or(eq.working, FALSE)
IsFailed(eq) == ~unwrap_or(eq.working, TRUE)
IsUnknown(eq) == ~eq.working.some

num_ok(eqs) == Len(SelectSeq(eqs, IsWorking))
num_failed(eqs) == Len(SelectSeq(eqs, IsFailed))
num_unknown(eqs, errs) == Len(SelectSeq(eqs, IsUnknown)) + Len(errs)

status_message(failed, ok, unknown) ==
    IF failed = 0 /\ ok > 0 /\ unknown > 0 THEN "Kein defekter Aufzug (einige Unbekannt)!"
    ELSE IF failed = 0 /\ ok = 0 THEN "Warnung: Aufzugstatus unbekannt!"
    ELSE IF failed = 0 /\ unknown = 0 THEN "Alle Aufzuege funktionieren!"
    ELSE "Achtung: Defekter Aufzug auf dem Weg!"

main_status_message(failed, ok, unknown) ==
    IF failed = 0 /\ ok > 0 /\ unknown > 0 THEN "Kein defekter Aufzug (einige Unbekannt)!"
    ELSE IF failed = 0 /\ ok = 0 THEN "Warnung: Aufzugstatus unbekannt!"
    ELSE IF failed = 0 /\ unknown = 0 THEN "Alle Aufzuege funktionieren!"
    ELSE "Achtung: Defekter Aufzug auf Arbeitsweg!"

send_result(eqs, errs) ==
    [num_ok |-> num_ok(eqs),
     num_failed |-> num_failed(eqs),
     num_unknown |-> num_unknown(eqs, errs),
     ok_status |-> num_ok(eqs) > 0,
     failed_status |-> num_failed(eqs) > 0,
     unknown_status |-> num_unknown(eqs, errs) > 0,
     errors |-> errs,
     status_message |->
        status_message(num_failed(eqs), num_ok(eqs), num_unknown(eqs, errs))]

main_send_result(eqs, errs) ==
    [num_ok |-> num_ok(eqs),
     num_failed |-> num_failed(eqs),
     num_unknown |-> num_unknown(eqs, errs),
     ok_status |-> num_ok(eqs) > 0,
     failed_status |-> num_failed(eqs) > 0,
     unknown_status |-> num_unknown(eqs, errs) > 0,
     errors |-> errs,
     status_message |->
        main_status_message(num_failed(eqs), num_ok(eqs), num_unknown(eqs, errs))]

NoMail == [status_message |-> "none"]

----------------------------------------------------------------------------
(* main.rs: main().  The Batch Resolver is the iterator chain of lines     *)
(* 361-371: partition() pulls one get_equipments result per configured     *)
(* group, in order; then the two halves are unwrapped.                     *)

MainSearchLists == {<<s_ab, s_xy>>, <<s_zz, s_ab>>}

MainResponses ==
    {Err([kind |-> "reqwest::Error"]),
     Response(500, RawText),
     Response(200, to_string(JObj([type |-> JStr(s_P)]))),
     Response(200, Body(JArr(<<f_ab_ok, f_xy_broken>>))),
     Response(200, Body(JArr(<<f_abc_unknown, f_ab_escalator>>))),
     Response(200, Body(JArr(<<f_no_properties>>)))}

Configs ==
    {c \in SeqsUpTo({EquipmentList(l) : l \in MainSearchLists}, MaxGroups) : c # <<>>}

MainInit ==
    /\ pc = "resolving"
    /\ EQUIPMENTS \in Configs
    /\ requests = <<>>
    /\ results = <<>>
    /\ equipments = <<>>
    /\ errors = <<>>

\* one item of EQUIPMENTS.iter().map(get_equipments)
MapGetEquipments ==
    /\ lib_call.fn = "none"
    /\ pc = "resolving"
    /\ Len(results) < Len(EQUIPMENTS)
    /\ \E response \in MainResponses :
          \E ret \in main_get_equipments(EQUIPMENTS[Len(results) + 1], response) :
             /\ requests' = Append(requests, Len(results) + 1)
             /\ results' = Append(results, ret)
    /\ UNCHANGED <<pc, EQUIPMENTS, equipments, errors, mail, libVars, displayVars>>

partition_oks(rs) == SelectSeq(rs, IsOk)
partition_errs(rs) == SelectSeq(rs, IsErr)

RECURSIVE Reverse(_)
Reverse(q) == IF q = <<>> THEN <<>> ELSE Append(Reverse(Tail(q)), Head(q))

\* mutant: the groups' records are merged last group first
collect_equipments_reversed(rs) == Flatten(Reverse(Map(partition_oks(rs), ResultOk)))

collect_equipments(rs) == Flatten(Map(partition_oks(rs), ResultOk))

\* mutant: only the first failure is kept
collect_errors_first(rs) ==
    IF partition_errs(rs) = <<>> THEN <<>> ELSE <<ResultErr(Head(partition_errs(rs)))>>

collect_errors(rs) == Map(partition_errs(rs), ResultErr)

\* the iterator is exhausted: partition returns, lines 366-379
Collect ==
    /\ pc = "resolving"
    /\ Len(results) = Len(EQUIPMENTS)
    /\ equipments' = collect_equipments(results)
    /\ errors' = collect_errors(results)
    /\ pc' = "collected"
    /\ UNCHANGED <<EQUIPMENTS, requests, results, mail, libVars, displayVars>>

\* line 381; mailer.send may fail, and then send_result panics
MainSendResult ==
    /\ pc = "collected"
    /\ mail' = main_send_result(equipments, errors)
    /\ \E sent \in BOOLEAN : pc' = IF sent THEN "status_sent" ELSE "panicked"
    /\ UNCHANGED <<EQUIPMENTS, requests, results, equipments, errors, libVars,
                   displayVars>>

\* line 383: send_errors returns at once when there are no errors
MainSendErrors ==
    /\ pc = "status_sent"
    /\ \E sent \in BOOLEAN :
          pc' = IF errors = <<>> \/ sent THEN "done" ELSE "panicked"
    /\ UNCHANGED <<EQUIPMENTS, requests, results, equipments, errors, mail, libVars,
                   displayVars>>

----------------------------------------------------------------------------
(* display.rs: render_ui's list of broken elevators *)

IsListedBroken(eq) == ~unwrap_or(eq.working, FALSE)
ElevatorItem(eq) == [name |-> eq.name, place |-> unwrap_or(eq.place, <<>>)]

render_ui(eqs) == Map(SelectSeq(eqs, IsListedBroken), ElevatorItem)

----------------------------------------------------------------------------
(* display.rs: update and upload_image.  One step per try_uploading call;  *)
(* the step of the call that ends upload_image also carries update on to   *)
(* the next upload_image or to its return.                                 *)

NUM_RETRIES == 5
InitialDelay == 100
SecondaryWait == 10000

Unit == Ok(<<>>)
NotReturned == [returned |-> FALSE]

UploadErrors == {"reqwest::Error(send)", "reqwest::Error(status)"}

\* mutant: the delay grows by the initial delay instead of doubling
next_delay_linear(d) == d + InitialDelay

next_delay(d) == d * 2

\* mutant: the first failure is kept instead of the last
next_last_result_first(last, result) == IF last.ok THEN result ELSE last

next_last_result(last, result) == result
\* for i in 1..NUM_RETRIES + 1: is there an iteration after iteration n
loop_continues(n) == n + 1 < NUM_RETRIES + 1

DisplayRecords ==
    {Equipment(s_ab, elevator, Some(TRUE), Some(s_P)),
     Equipment(s_xy, Elevator, Some(FALSE), None),
     Equipment(s_abc, elevator, None, Some(s_P))}

NotifyInit ==
    /\ mail = NoMail
    /\ d_pc = "idle"
    /\ d_equipments = <<>>
    /\ broken_equipments = <<>>
    /\ tag = "none"
    /\ i = 0
    /\ delay = 0
    /\ last_result = Unit
    /\ attempts = <<>>
    /\ sleeps = <<>>
    /\ upload_ret = [main_tag |-> NotReturned, secondary_tag |-> NotReturned]
    /\ d_ret = NotReturned

\* update(): render_ui, then upload_image(main_tag) up to its loop
Update ==
    /\ d_pc = "idle"
    /\ \E eqs \in SeqsUpTo(DisplayRecords, MaxRecords) :
          /\ d_equipments' = eqs
          /\ broken_equipments' = render_ui(eqs)
    /\ tag' = "main_tag"
    /\ i' = 1
    /\ delay' = InitialDelay
    /\ last_result' = Unit
    /\ d_pc' = "uploading"
    /\ UNCHANGED <<attempts, sleeps, upload_ret, d_ret, mail, libVars, mainVars>>

\* update without the ? of line 54: the secondary upload follows any main upload
UploadReturns_ignore_main(ret, slept) ==
    /\ upload_ret' = [upload_ret EXCEPT ![tag] = ret]
    /\ IF tag = "main_tag"
       THEN /\ sleeps' = sleeps \o slept \o <<<<"update", SecondaryWait>>>>
            /\ tag' = "secondary_tag"
            /\ i' = 1
            /\ delay' = InitialDelay
            /\ last_result' = Unit
            /\ d_pc' = "uploading"
            /\ UNCHANGED d_ret
       ELSE /\ sleeps' = sleeps \o slept
            /\ d_ret' = ret
            /\ d_pc' = "returned"
            /\ UNCHANGED <<tag, i, delay, last_result>>

\* upload_image returned ret for the current tag: update goes on to the
\* secondary tag after an Ok for the main tag and returns ret otherwise; the
\* locals of the upload_image that returned are dead and keep their values
UploadReturns(ret, slept) ==
    /\ upload_ret' = [upload_ret EXCEPT ![tag] = ret]
    /\ IF ret.ok /\ tag = "main_tag"
       THEN /\ sleeps' = sleeps \o slept \o <<<<"update", SecondaryWait>>>>
            /\ tag' = "secondary_tag"
            /\ i' = 1
            /\ delay' = InitialDelay
            /\ last_result' = Unit
            /\ d_pc' = "uploading"
            /\ UNCHANGED d_ret
       ELSE /\ sleeps' = sleeps \o slept
            /\ d_ret' = ret
            /\ d_pc' = "returned"
            /\ UNCHANGED <<tag, i, delay, last_result>>

\* try_uploading succeeds: upload_image returns Ok(())
UploadOk ==
    /\ d_pc = "uploading"
    /\ attempts' = Append(attempts, <<tag, Unit>>)
    /\ UploadReturns(Unit, <<>>)
    /\ UNCHANGED <<d_equipments, broken_equipments, mail, libVars, mainVars>>

\* try_uploading fails: remember the error, sleep, double the delay; after
\* the last iteration upload_image returns last_result
UploadFails ==
    /\ d_pc = "uploading"
    /\ \E e \in UploadErrors :
          LET result == Err(e)
              slept == <<<<tag, delay>>>>
          IN  /\ attempts' = Append(attempts, <<tag, result>>)
              /\ IF loop_continues(i)
                 THEN /\ last_result' = next_last_result(last_result, result)
                      /\ sleeps' = sleeps \o slept
                      /\ delay' = next_delay(delay)
                      /\ i' = i + 1
                      /\ UNCHANGED <<d_pc, tag, upload_ret, d_ret>>
                 ELSE UploadReturns(next_last_result(last_result, result), slept)
    /\ UNCHANGED <<d_equipments, broken_equipments, mail, libVars, mainVars>>

\* email::send_result (the example's EMail command): counters and subject;
\* mailer.send may fail, and then send_result panics
SendResult ==
    /\ d_pc = "idle"
    /\ \E eqs \in SeqsUpTo(DisplayRecords, MaxRecords), nerrs \in 0..MaxGroups :
          /\ d_equipments' = eqs
          /\ mail' = send_result(eqs, [k \in 1..nerrs |-> "error"])
    /\ \E sent \in BOOLEAN : d_pc' = IF sent THEN "mailed" ELSE "panicked"
    /\ UNCHANGED <<broken_equipments, tag, i, delay, last_result, attempts, sleeps,
                   upload_ret, d_ret, libVars, mainVars>>

----------------------------------------------------------------------------
(* Specifications *)

Idle ==
    /\ LibInit
    /\ pc = "idle" /\ EQUIPMENTS = <<>> /\ requests = <<>> /\ results = <<>>
    /\ equipments = <<>> /\ errors = <<>>
    /\ NotifyInit

\* the binary of main.rs
Init == /\ LibInit /\ MainInit /\ NotifyInit
Next == MapGetEquipments \/ Collect \/ MainSendResult \/ MainSendErrors
Spec == Init /\ [][Next]_vars

\* calls of the library functions of lib.rs
InitLib == Idle
NextLib == ParseEquipment \/ ParseEquipmentList \/ GetEquipments
SpecLib == InitLib /\ [][NextLib]_vars

\* the notification collaborators: display::update and email::send_result
InitNotify == Idle
NextNotify == Update \/ UploadOk \/ UploadFails \/ SendResult
SpecNotify == InitNotify /\ [][NextNotify]_vars

----------------------------------------------------------------------------
(* Claims about the Batch Resolver (specification Spec) *)

Collected == pc \in {"collected", "status_sent", "done", "panicked"}

FailingGroups == {g \in DOMAIN results : ~results[g].ok}
SucceedingGroups == {g \in DOMAIN results : results[g].ok}

Occurrences(q, x) == Cardinality({k \in DOMAIN q : q[k] = x})

RECURSIVE SumLen(_)
SumLen(G) ==
    IF G = {} THEN 0
    ELSE LET g == CHOOSE x \in G : TRUE
         IN  Len(results[g].v) + SumLen(G \ {g})

RECURSIVE SumOccurrences(_, _)
SumOccurrences(G, x) ==
    IF G = {} THEN 0
    ELSE LET g == CHOOSE y \in G : TRUE
         IN  Occurrences(results[g].v, x) + SumOccurrences(G \ {g}, x)

\* C1: Batch isolation.  Once the batch has been collected, the resolver was
\* run once on every configured group whatever the earlier groups returned,
\* the merged records are exactly the records of the succeeding groups (each
\* record as often as the succeeding groups returned it, nothing else), and
\* there is exactly one error per failing group; so all groups failing gives
\* no records and one error per group, all succeeding gives no errors.
BatchIsolation ==
    Collected =>
        /\ requests = [g \in 1..Len(EQUIPMENTS) |-> g]
        /\ Len(results) = Len(EQUIPMENTS)
        /\ Len(errors) = Cardinality(FailingGroups)
        /\ \A g \in FailingGroups : Occurrences(errors, results[g].e) >= 1
        /\ Len(equipments) = SumLen(SucceedingGroups)
        /\ \A g \in SucceedingGroups : \A k \in DOMAIN results[g].v :
              Occurrences(equipments, results[g].v[k])
                 = SumOccurrences(SucceedingGroups, results[g].v[k])
        /\ (SucceedingGroups = {} => equipments = <<>> /\ Len(errors) = Len(EQUIPMENTS))
        /\ (FailingGroups = {} => errors = <<>>)

\* C1 witness: three groups, the second one's HTTP call returned a
\* non-success status, the other two returned records
BatchIsolationWitness ==
    /\ Collected
    /\ Len(EQUIPMENTS) = 3
    /\ results[1].ok /\ results[1].v # <<>>
    /\ ~results[2].ok /\ results[2].e.kind = "HTTPRequestError"
    /\ results[3].ok /\ results[3].v # <<>>
    /\ Len(errors) = 1
    /\ Len(equipments) = Len(results[1].v) + Len(results[3].v)

\* the searches of group g that a record above the threshold exists for, in
\* order: is `records` matched to a subsequence of `searches`, in order
RECURSIVE InLabelOrder(_, _)
InLabelOrder(records, searches) ==
    IF records = <<>> THEN TRUE
    ELSE IF searches = <<>> THEN FALSE
    ELSE IF matches(Head(searches), Head(records).name)
         THEN InLabelOrder(Tail(records), Tail(searches))
         ELSE InLabelOrder(records, Tail(searches))

\* position in `equipments` before the first record of group g
Offset(g) == SumLen({h \in SucceedingGroups : h < g})
\* position in `errors` of the error of the failing group g
ErrorIndex(g) == Cardinality({h \in FailingGroups : h <= g})

\* C10: Output ordering.  The record list is the concatenation, in group
\* order, of each succeeding group's records, which are in the order of the
\* group's labels; the error list holds the failing groups' errors in group
\* order.
OutputOrdering ==
    Collected =>
        /\ Len(equipments) = SumLen(SucceedingGroups)
        /\ \A g \in SucceedingGroups :
              /\ \A k \in DOMAIN results[g].v :
                    equipments[Offset(g) + k] = results[g].v[k]
              /\ InLabelOrder(results[g].v, EQUIPMENTS[g].equipment_searches)
        /\ Len(errors) = Cardinality(FailingGroups)
        /\ \A g \in FailingGroups : errors[ErrorIndex(g)] = results[g].e

\* C10 witness: a group that returned two different records, then a failing
\* group, then a group that returned other records
OutputOrderingWitness ==
    /\ Collected
    /\ Len(EQUIPMENTS) = 3
    /\ results[1].ok /\ Len(results[1].v) = 2 /\ results[1].v[1] # results[1].v[2]
    /\ ~results[2].ok
    /\ results[3].ok /\ results[3].v # <<>> /\ results[3].v[1] # results[1].v[1]
    /\ equipments = results[1].v \o results[3].v

\* C2: Fail-fast per group.  A group's resolution that succeeded dropped no
\* label: it holds one record per search label, the k-th record matching the
\* k-th label above the threshold; a group with an unmatched label fails.
FailFastPerGroup ==
    \A g \in SucceedingGroups :
        /\ Len(results[g].v) = Len(EQUIPMENTS[g].equipment_searches)
        /\ \A k \in DOMAIN results[g].v :
              matches(EQUIPMENTS[g].equipment_searches[k], results[g].v[k].name)

----------------------------------------------------------------------------
(* Claims about upload_image and the consumers of the records              *)
(* (specification SpecNotify)                                              *)

Tags == {"main_tag", "secondary_tag"}

AttemptsOf(tg) == SelectSeq(attempts, LAMBDA a : a[1] = tg)
SleepsOf(tg) == SelectSeq(sleeps, LAMBDA sl : sl[1] = tg)
AllFailed(a) == \A k \in DOMAIN a : ~a[k][2].ok

RECURSIVE Pow2(_)
Pow2(n) == IF n = 0 THEN 1 ELSE 2 * Pow2(n - 1)

RECURSIVE TotalSleep(_)
TotalSleep(sl) == IF sl = <<>> THEN 0 ELSE Head(sl)[2] + TotalSleep(Tail(sl))

\* C3: Retry exhaustion.  upload_image never makes a 6th attempt; while
\* fewer than 5 attempts have been made and all of them failed it has not
\* returned; once 5 attempts have failed it has returned, and what it
\* returned is the error of the 5th attempt.
RetryExhaustion ==
    \A tg \in Tags :
        /\ Len(AttemptsOf(tg)) <= 5
        /\ (AllFailed(AttemptsOf(tg)) /\ Len(AttemptsOf(tg)) < 5)
              => upload_ret[tg] = NotReturned
        /\ (AllFailed(AttemptsOf(tg)) /\ Len(AttemptsOf(tg)) = 5)
              => upload_ret[tg] = AttemptsOf(tg)[5][2]

\* C3 witness: five failed attempts, the last error differing from the
\* first and from the fourth, and upload_image has returned the last one
RetryExhaustionWitness ==
    /\ Len(AttemptsOf("main_tag")) = 5
    /\ AllFailed(AttemptsOf("main_tag"))
    /\ AttemptsOf("main_tag")[5][2] # AttemptsOf("main_tag")[4][2]
    /\ AttemptsOf("main_tag")[5][2] # AttemptsOf("main_tag")[1][2]
    /\ upload_ret["main_tag"] = AttemptsOf("main_tag")[5][2]
    /\ d_pc = "returned"

\* C4: Retry success.  A successful attempt is the last attempt of its
\* upload and upload_image has returned Ok; when upload_image returned Ok
\* after k failures (k in 0..4) it made k + 1 attempts and slept k times
\* before the successful one, the j-th sleep being 100 * 2^(j-1) ms.
RetrySuccess ==
    \A tg \in Tags :
        /\ \A k \in DOMAIN AttemptsOf(tg) :
              AttemptsOf(tg)[k][2].ok
                 => k = Len(AttemptsOf(tg)) /\ upload_ret[tg] = Unit
        /\ upload_ret[tg] = Unit =>
              /\ Len(AttemptsOf(tg)) \in 1..5
              /\ AttemptsOf(tg)[Len(AttemptsOf(tg))][2].ok
              /\ Len(SleepsOf(tg)) = Len(AttemptsOf(tg)) - 1
              /\ \A j \in DOMAIN SleepsOf(tg) : SleepsOf(tg)[j][2] = 100 * Pow2(j - 1)
              /\ (Len(AttemptsOf(tg)) = 5 => TotalSleep(SleepsOf(tg)) = 1500)

\* C4 witness: four failures, then success on the fifth attempt, after
\* 100 + 200 + 400 + 800 ms of sleep
RetrySuccessWitness ==
    /\ upload_ret["main_tag"] = Unit
    /\ Len(AttemptsOf("main_tag")) = 5
    /\ SleepsOf("main_tag") = <<<<"main_tag", 100>>, <<"main_tag", 200>>,
                                <<"main_tag", 400>>, <<"main_tag", 800>>>>

\* C5: Backoff only when attempts remain.  When upload_image has returned
\* a failure (all 5 attempts failed) it has slept 4 times: after each of
\* the first four failures and not after the fifth.
BackoffOnlyWhenAttemptsRemain ==
    \A tg \in Tags :
        (upload_ret[tg] # NotReturned /\ upload_ret[tg] # Unit)
           => Len(SleepsOf(tg)) = 4

Rendered == d_pc \in {"uploading", "returned"}
Mailed == d_pc \in {"mailed", "panicked"}
BrokenRecords == {k \in DOMAIN d_equipments : d_equipments[k].working = Some(FALSE)}

\* C6: Tri-state status.  The e-mail's failed counter and the display's
\* broken-elevator list hold exactly the records with working = false: a
\* record whose status is unknown is in neither.
UnknownIsNotBroken ==
    /\ Mailed => mail.num_failed = Cardinality(BrokenRecords)
    /\ Rendered => Len(broken_equipments) = Cardinality(BrokenRecords)

----------------------------------------------------------------------------
(* Claims about the parsers of lib.rs (specification SpecLib) *)

Called(fn) == lib_call.fn = fn

HasProperties(json) == json.t = "obj" /\ "properties" \in DOMAIN json.o

\* C7: a feature object without a `properties` member makes parse_equipment
\* return MissingValue with the field name "properties" and the feature
\* object as payload.
MissingPropertiesError ==
    (Called("parse_equipment") /\ lib_call.arg.t = "obj"
        /\ ~HasProperties(lib_call.arg))
       => lib_call.ret = Err(MissingValue("properties", to_string(lib_call.arg)))

\* does the element parse to a record of category "elevator", case ignored
ParsesToElevator(json) ==
    LET parsed == parse_equipment(json)
    IN  parsed.ok /\ to_lowercase(parsed.v.category) = elevator

\* the parse errors of the elements of a, in input order
RECURSIVE ElementErrors(_)
ElementErrors(a) ==
    IF a = <<>> THEN <<>>
    ELSE LET parsed == parse_equipment(Head(a))
         IN  IF parsed.ok THEN ElementErrors(Tail(a))
             ELSE <<parsed.e>> \o ElementErrors(Tail(a))

\* the records of the elements of a that parse to an elevator, in input order
RECURSIVE ElevatorRecords(_)
ElevatorRecords(a) ==
    IF a = <<>> THEN <<>>
    ELSE IF ParsesToElevator(Head(a))
         THEN <<parse_equipment(Head(a)).v>> \o ElevatorRecords(Tail(a))
         ELSE ElevatorRecords(Tail(a))

\* C8: Empty-after-filter failure.  For a feature array none of whose
\* elements parses to an elevator record, parse_equipment_list fails and
\* its error is the list of the elements' parse errors in input order,
\* also when some elements parsed and were filtered out.
EmptyAfterFilterFails ==
    (Called("parse_equipment_list") /\ lib_call.arg.t = "arr"
        /\ \A k \in DOMAIN lib_call.arg.a : ~ParsesToElevator(lib_call.arg.a[k]))
       => lib_call.ret = Err(ElementErrors(lib_call.arg.a))

\* C8 witness: an escalator that parsed and an element without properties:
\* the error list has one entry for two elements
EmptyAfterFilterWitness ==
    /\ Called("parse_equipment_list")
    /\ lib_call.arg = JArr(<<f_ab_escalator, f_no_properties>>)
    /\ ~lib_call.ret.ok
    /\ Len(lib_call.ret.e) = 1

\* C9: Elevator filter invariant.  A successful parse_equipment_list result
\* is non-empty and is exactly the records of the elements that parse to an
\* elevator (case ignored, a missing category counting as "elevator"), in
\* input order; and every record of a successful get_equipments has an
\* elevator category.
ElevatorFilter ==
    /\ (Called("parse_equipment_list") /\ lib_call.ret.ok)
          => /\ lib_call.ret.v # <<>>
             /\ lib_call.arg.t = "arr"
             /\ lib_call.ret.v = ElevatorRecords(lib_call.arg.a)
    /\ (Called("get_equipments") /\ lib_call.ret.ok)
          => \A k \in DOMAIN lib_call.ret.v :
                to_lowercase(lib_call.ret.v[k].category) = elevator

\* C9 witness: an upper-case "Elevator" and a record without category are
\* kept, in input order, and the escalator between them is dropped
ElevatorFilterWitness ==
    /\ Called("parse_equipment_list")
    /\ lib_call.arg = JArr(<<f_xy_broken, f_ab_escalator, f_abc_unknown>>)
    /\ lib_call.ret = Ok(<<parse_equipment(f_xy_broken).v,
                           parse_equipment(f_abc_unknown).v>>)


\* C11: a record that parse_equipment constructed has a non-empty name.
NameIsNonEmpty ==
    (Called("parse_equipment") /\ lib_call.ret.ok) => lib_call.ret.v.name # <<>>


(* Claims about the Location Resolver of lib.rs (specification SpecLib) *)

Resolved == Called("get_equipments")
\* the HTTP GET was issued and answered
Answered == Resolved /\ lib_call.arg.env_token.some /\ lib_call.arg.response.ok
Status == lib_call.arg.response.v.status
BodyText == lib_call.arg.response.v.text
StatusIsSuccess == Status \in 200..299
BodyIsJson == BodyText.ok /\ BodyText.v.text = "json"
BodyJson == BodyText.v.of
HasFeatures == BodyJson.t = "obj" /\ "features" \in DOMAIN BodyJson.o
FeaturesValue == BodyJson.o["features"]
\* the records the Feature List Parser hands to the lookup, in API order
SourceRecords ==
    IF FeaturesValue.t = "arr" THEN ElevatorRecords(FeaturesValue.a) ELSE <<>>

\* C12: Step precedence.  The outcome of an answered request is the failure
\* of the earliest failing step: a non-success status gives HTTPRequestError
\* with that status and the body, whatever the body holds; else a body that
\* is no JSON gives the deserialization error; else a document without
\* `features` gives MissingValue("", raw body); else a failing Feature List
\* Parser gives the aggregate error string; and only then can a label's
\* lookup fail with CannotFindEquipment.  (A body that cannot be read is
\* reported as "No text received!" under a non-success status and as the
\* read error under a success status.)
StepPrecedence ==
    Answered =>
        IF ~StatusIsSuccess
        THEN lib_call.ret =
                Err(HTTPRequestError(Status, IF BodyText.ok THEN BodyText.v
                                             ELSE NoTextReceived))
        ELSE IF ~BodyText.ok
        THEN lib_call.ret = Err(BodyText.e)
        ELSE IF ~BodyIsJson
             THEN lib_call.ret = Err([kind |-> "serde_json::Error"])
             ELSE IF ~HasFeatures
             THEN lib_call.ret = Err(MissingValue("", BodyText.v))
             ELSE IF SourceRecords = <<>>
             THEN ~lib_call.ret.ok /\ lib_call.ret.e.kind = "String"
             ELSE lib_call.ret.ok \/ lib_call.ret.e.kind = "CannotFindEquipment"

\* C12 witness: status 404 with a body that would have resolved
StepPrecedenceWitness ==
    /\ Answered
    /\ Status = 404
    /\ BodyIsJson /\ HasFeatures /\ SourceRecords # <<>>
    /\ lib_call.arg.list.equipment_searches = <<s_ab>>
    /\ lib_call.ret = Err(HTTPRequestError(404, BodyText.v))

SourceNames == LET recs == SourceRecords IN {recs[k].name : k \in DOMAIN recs}
Searches == lib_call.arg.list.equipment_searches
\* the lookup loop was reached
LookedUp == /\ Answered /\ StatusIsSuccess /\ BodyIsJson /\ HasFeatures
            /\ SourceRecords # <<>>
ClearsThreshold(query, name) ==
    LET score == similarity_to(query, name) IN 10 * score[1] >= 4 * score[2]

\* C13: Best-match lookup.  The name of the record returned for a label is
\* a name of the filtered records that clears the 0.4 threshold and scores
\* at least as high against the label as every other name; and a label is
\* reported as not found only if it equals no name and no name clears the
\* threshold against it.
BestMatchLookup ==
    LookedUp =>
        LET names == SourceNames
            ret == lib_call.ret
        IN  /\ ret.ok =>
                  \A k \in DOMAIN ret.v :
                     /\ k <= Len(Searches)
                     /\ ret.v[k].name \in names
                     /\ ClearsThreshold(Searches[k], ret.v[k].name)
                     /\ \A n \in names :
                           ScoreGeq(similarity_to(Searches[k], ret.v[k].name),
                                    similarity_to(Searches[k], n))
            /\ ~ret.ok =>
                  /\ ret.e.kind = "CannotFindEquipment"
                  /\ ret.e.query_text \notin names
                  /\ \A n \in names : ~ClearsThreshold(ret.e.query_text, n)

\* C13 witness: the label "ab" against the names "abc" and "ab", both above
\* the threshold: the exact name is returned
BestMatchLookupWitness ==
    /\ LookedUp
    /\ Searches = <<s_ab>>
    /\ SourceNames = {s_ab, s_abc}
    /\ SourceRecords[1].name = s_abc
    /\ ClearsThreshold(s_ab, s_abc)
    /\ lib_call.ret.ok
    /\ lib_call.ret.v[1].name = s_ab

\* the first record in API order that has the name
FirstNamed(name) ==
    LET recs == SourceRecords
    IN  recs[CHOOSE j \in DOMAIN recs :
                /\ recs[j].name = name
                /\ \A h \in 1..(j - 1) : recs[h].name # name]

\* C16: Shape of a successful group result.  It holds one record per search
\* label, in label order, the k-th being the first record in API order that
\* bears the name matched for the k-th label.
SuccessfulResultShape ==
    (LookedUp /\ lib_call.ret.ok) =>
        LET names == SourceNames
            ret == lib_call.ret
        IN  /\ Len(ret.v) = Len(Searches)
            /\ \A k \in DOMAIN ret.v :
                  /\ ret.v[k].name \in names
                  /\ matches(Searches[k], ret.v[k].name)
                  /\ ret.v[k] = FirstNamed(ret.v[k].name)

\* C16 witness: two records share the name "abc" and both labels match it:
\* the first record is returned twice, the second never
SuccessfulResultShapeWitness ==
    /\ LookedUp
    /\ Searches = <<s_ab, s_abc>>
    /\ FeaturesValue = JArr(<<f_abc_unknown, f_abc_second>>)
    /\ SourceRecords[1] # SourceRecords[2]
    /\ lib_call.ret = Ok(<<SourceRecords[1], SourceRecords[1]>>)

\* upload_image for the tag has returned, and returned an error
Returned(tg) == upload_ret[tg] # NotReturned
ReturnedErr(tg) == Returned(tg) /\ ~upload_ret[tg].ok

\* C14: Display update ordering.  The secondary tag is attempted only after
\* the upload to the main tag has returned Ok, and never before a main
\* attempt; a main upload that fails does so after 5 failed attempts, update
\* returns its error and the secondary tag is never attempted; update
\* returns Ok only if both uploads returned Ok.
DisplayUpdateOrdering ==
    /\ AttemptsOf("secondary_tag") # <<>> => upload_ret["main_tag"] = Unit
    /\ \A j \in DOMAIN attempts : \A k \in DOMAIN attempts :
          (j < k /\ attempts[j][1] = "secondary_tag") => attempts[k][1] = "secondary_tag"
    /\ ReturnedErr("main_tag") =>
          /\ Len(AttemptsOf("main_tag")) = NUM_RETRIES
          /\ AllFailed(AttemptsOf("main_tag"))
          /\ d_pc = "returned"
          /\ d_ret = upload_ret["main_tag"]
          /\ d_ret = AttemptsOf("main_tag")[NUM_RETRIES][2]
          /\ AttemptsOf("secondary_tag") = <<>>
          /\ ~Returned("secondary_tag")
    /\ d_ret = Unit => upload_ret["main_tag"] = Unit /\ upload_ret["secondary_tag"] = Unit
    /\ ReturnedErr("secondary_tag") => d_ret = upload_ret["secondary_tag"]

\* C14 witness: the main upload has used up its attempts and update returned
DisplayUpdateOrderingWitness ==
    /\ d_pc = "returned"
    /\ ReturnedErr("main_tag")
    /\ Len(AttemptsOf("main_tag")) = NUM_RETRIES
    /\ d_ret = upload_ret["main_tag"]
    /\ AttemptsOf("secondary_tag") = <<>>

\* the records of the mail by their working field
RecordsWith(w) == {k \in DOMAIN d_equipments : d_equipments[k].working = w}
ReportsDefective == mail.status_message = "Achtung: Defekter Aufzug auf dem Weg!"
ReportsAllWorking == mail.status_message = "Alle Aufzuege funktionieren!"
ReportsUnknown ==
    mail.status_message \in {"Warnung: Aufzugstatus unbekannt!",
                             "Kein defekter Aufzug (einige Unbekannt)!"}

\* C15: E-mail status classification.  Each record is counted in exactly one
\* of ok, failed and unknown, and each error as unknown, so the three add up
\* to records plus errors; the subject reports a defective elevator exactly
\* when a record has working = false, that all work exactly when a record
\* works and nothing is failed, unknown or an error, and an unknown status
\* in every other case, the empty input included.
StatusClassification ==
    Mailed =>
        LET nerrs == Len(mail.errors)
        IN  /\ mail.num_ok = Cardinality(RecordsWith(Some(TRUE)))
            /\ mail.num_failed = Cardinality(RecordsWith(Some(FALSE)))
            /\ mail.num_unknown = Cardinality(RecordsWith(None)) + nerrs
            /\ mail.num_ok + mail.num_failed + mail.num_unknown
                  = Len(d_equipments) + nerrs
            /\ ReportsDefective <=> RecordsWith(Some(FALSE)) # {}
            /\ ReportsAllWorking <=>
                  /\ RecordsWith(Some(TRUE)) # {}
                  /\ RecordsWith(Some(FALSE)) = {}
                  /\ RecordsWith(None) = {}
                  /\ nerrs = 0
            /\ ReportsUnknown <=> ~ReportsDefective /\ ~ReportsAllWorking
            /\ (d_equipments = <<>> /\ nerrs = 0) => ReportsUnknown

\* C15 witness: a mail about a working and an unknown record and an error,
\* none failed
StatusClassificationWitness ==
    /\ Mailed
    /\ RecordsWith(Some(TRUE)) # {}
    /\ RecordsWith(None) # {}
    /\ RecordsWith(Some(FALSE)) = {}
    /\ Len(mail.errors) = 1
    /\ mail.num_unknown = 2
    /\ ReportsUnknown

====
